---- MODULE Spec2Model ----
(***************************************************************************)
(* Request pipeline (middleware chain + exception translation) and token   *)
(* service of the FastAPI application in src/app.                           *)
(*                                                                         *)
(* Spec       : requests travelling through the ASGI stack built by        *)
(*              create_app (src/app/main.py).                               *)
(* SpecAnyOrder : the same, with the four exception handlers registered in *)
(*              an arbitrary order.                                         *)
(* CorsSpec   : one request, under any value of the CORS origin setting.    *)
(* DbSpec     : requests whose route depends on a database session, under  *)
(*              any value of the database URL.                              *)
(* TokenSpec  : create_access_token / verify_token / decode_access_token   *)
(*              (src/app/utils/security.py) under an advancing clock.       *)
(*                                                                         *)
(* Representation: an Optional value is a sequence of length 0 (None) or 1;*)
(* a str->str mapping is a set of <<key, value>> pairs; time is counted in *)
(* minutes, the unit of access_token_expire_minutes.  The CORS setting is a *)
(* string made of pieces: the text of an origin, a comma, a blank, a star. *)
(***************************************************************************)
EXTENDS Integers, Sequences, FiniteSets, TLC

VARIABLES
    settings,           \* the Settings instance: what the environment gives, and the fields
    db,                 \* per request: the session its dependency yielded, and what was done to it
    exception_handlers, \* app.exception_handlers, in insertion order
    requests,           \* per request: position in the stack and what is in flight
    used_ids,           \* correlation ids generated so far
    now,                \* the clock (minutes)
    issued,             \* tokens issued so far, with the call that issued them
    last                \* the token-service call that has just returned, and its outcome

vars == <<settings, db, exception_handlers, requests, used_ids, now, issued, last>>

----------------------------------------------------------------------------
(* Bounds *)

MaxRequests == 2
MaxClock == 32
MaxTokens == 1
MaxLen == 3

(* Program constants *)

HTTP_500_INTERNAL_SERVER_ERROR == 500
HTTP_422_UNPROCESSABLE_ENTITY == 422
HTTP_404_NOT_FOUND == 404
HTTP_401_UNAUTHORIZED == 401
HTTP_403_FORBIDDEN == 403
access_token_expire_minutes == 30

None == <<>>
Some(x) == <<x>>
IsNone(o) == o = <<>>
Val(o) == o[1]

----------------------------------------------------------------------------
(* Exceptions: src/app/core/exceptions.py *)

\* `details or {}` of AppException.__init__
DetailsOrEmpty(details) == IF IsNone(details) \/ Val(details) = {} THEN {} ELSE Val(details)

AppExceptionInit(cls, message, status_code, details) ==
    [cls |-> cls, message |-> message, status_code |-> status_code,
     details |-> DetailsOrEmpty(details)]

AppException(message, status_code, details) ==
    AppExceptionInit("AppException", message, status_code, details)

ValidationException(message, details) ==
    AppExceptionInit("ValidationException", message, HTTP_422_UNPROCESSABLE_ENTITY, details)

NotFoundException(message) ==
    AppExceptionInit("NotFoundException", message, HTTP_404_NOT_FOUND, None)

UnauthorizedException(message) ==
    AppExceptionInit("UnauthorizedException", message, HTTP_401_UNAUTHORIZED, None)

ForbiddenException(message) ==
    AppExceptionInit("ForbiddenException", message, HTTP_403_FORBIDDEN, None)

\* Exceptions of the framework and of the standard library, in the same shape:
\* message is HTTPException.detail or str(exc), details is
\* RequestValidationError.errors() as <<location, message>> pairs (an entry
\* of the response's validation_errors is <<"validation_errors", location,
\* message>>).
OtherException(cls, message, status_code, details) ==
    [cls |-> cls, message |-> message, status_code |-> status_code, details |-> details]

\* type(exc).__mro__, without object
Mro(cls) ==
    CASE cls \in {"ValidationException", "NotFoundException",
                  "UnauthorizedException", "ForbiddenException"}
            -> <<cls, "AppException", "Exception">>
      [] cls = "HTTPException"
            -> <<cls, "StarletteHTTPException", "Exception">>
      [] cls = "ExpiredSignatureError"
            -> <<cls, "JWTError", "Exception">>
      [] cls = "Exception" -> <<cls>>
      [] OTHER -> <<cls, "Exception">>

IsInstance(exc, cls) == \E i \in 1..Len(Mro(exc.cls)) : Mro(exc.cls)[i] = cls

IsClassified(exc) == IsInstance(exc, "AppException")

IsUnclassified(exc) ==
    /\ ~IsInstance(exc, "AppException")
    /\ ~IsInstance(exc, "StarletteHTTPException")
    /\ ~IsInstance(exc, "RequestValidationError")

JSONResponse(status_code, content) ==
    [status_code |-> status_code, body |-> content, headers |-> {}]

\* app_exception_handler answering with a fixed status
app_exception_handler_fixed_status(exc) ==
    JSONResponse(HTTP_500_INTERNAL_SERVER_ERROR,
                 [error |-> TRUE, message |-> exc.message, details |-> exc.details])

app_exception_handler(exc) ==
    JSONResponse(exc.status_code,
                 [error |-> TRUE, message |-> exc.message, details |-> exc.details])

http_exception_handler(exc) ==
    JSONResponse(exc.status_code,
                 [error |-> TRUE, message |-> exc.message, details |-> {}])

validation_exception_handler(exc) ==
    JSONResponse(HTTP_422_UNPROCESSABLE_ENTITY,
                 [error |-> TRUE, message |-> "Validation error",
                  details |-> {<<"validation_errors", e[1], e[2]>> : e \in exc.details}])

\* general_exception_handler putting str(exc) into the body
general_exception_handler_leaking(exc) ==
    JSONResponse(HTTP_500_INTERNAL_SERVER_ERROR,
                 [error |-> TRUE, message |-> exc.message, details |-> {}])

general_exception_handler(exc) ==
    JSONResponse(HTTP_500_INTERNAL_SERVER_ERROR,
                 [error |-> TRUE, message |-> "Internal server error", details |-> {}])

\* the log record each handler writes before it builds the response
HandlerLog(name, exc) ==
    CASE name = "app_exception_handler"
            -> [level |-> "error", msg |-> "App exception", request_id |-> None]
      [] name = "http_exception_handler"
            -> [level |-> "error", msg |-> "HTTP exception", request_id |-> None]
      [] name = "validation_exception_handler"
            -> [level |-> "error", msg |-> "Validation exception", request_id |-> None]
      [] OTHER
            -> [level |-> "error", msg |-> "Unhandled exception occurred", request_id |-> None]

CallHandler(name, exc) ==
    CASE name = "app_exception_handler" -> app_exception_handler(exc)
      [] name = "http_exception_handler" -> http_exception_handler(exc)
      [] name = "validation_exception_handler" -> validation_exception_handler(exc)
      [] name = "fastapi.http_exception_handler"
            -> JSONResponse(exc.status_code, [detail |-> exc.message])
      [] name = "fastapi.request_validation_exception_handler"
            -> JSONResponse(HTTP_422_UNPROCESSABLE_ENTITY, [detail |-> exc.details])
      [] OTHER -> general_exception_handler(exc)

----------------------------------------------------------------------------
(* Handler registration and lookup.  app.exception_handlers is a dict: a   *)
(* sequence of <<class, handler>> in insertion order, one entry per class. *)

\* the handlers FastAPI itself installs before setup_exception_handlers runs
DefaultHandlers ==
    << <<"StarletteHTTPException", "fastapi.http_exception_handler">>,
       <<"RequestValidationError", "fastapi.request_validation_exception_handler">> >>

HasKey(handlers, cls) == \E i \in 1..Len(handlers) : handlers[i][1] = cls

\* app.add_exception_handler(cls, handler): dict assignment
add_exception_handler(handlers, cls, handler) ==
    IF HasKey(handlers, cls)
    THEN [i \in 1..Len(handlers) |->
            IF handlers[i][1] = cls THEN <<cls, handler>> ELSE handlers[i]]
    ELSE Append(handlers, <<cls, handler>>)

\* the four registrations of setup_exception_handlers, in source order
Registrations ==
    << <<"AppException", "app_exception_handler">>,
       <<"StarletteHTTPException", "http_exception_handler">>,
       <<"RequestValidationError", "validation_exception_handler">>,
       <<"Exception", "general_exception_handler">> >>

RECURSIVE RegisterAll(_, _)
RegisterAll(handlers, regs) ==
    IF regs = <<>> THEN handlers
    ELSE RegisterAll(add_exception_handler(handlers, Head(regs)[1], Head(regs)[2]),
                     Tail(regs))

setup_exception_handlers(handlers) == RegisterAll(handlers, Registrations)

\* the four registrations applied in the order given by the permutation p
Permuted(p) == [i \in 1..Len(Registrations) |-> Registrations[p[i]]]

Perms ==
    {p \in [1..Len(Registrations) -> 1..Len(Registrations)] :
        \A i, j \in 1..Len(Registrations) : i # j => p[i] # p[j]}

Get(handlers, cls) ==
    LET idx == {i \in 1..Len(handlers) : handlers[i][1] = cls}
    IN  IF idx = {} THEN None ELSE Some(handlers[CHOOSE i \in idx : TRUE][2])

\* build_middleware_stack: the handler registered for Exception goes to
\* ServerErrorMiddleware, every other one to ExceptionMiddleware
ErrorHandler(handlers) == Get(handlers, "Exception")

InnerHandlers(handlers) ==
    SelectSeq(handlers, LAMBDA h : h[1] # "Exception")

\* a lookup by the exact class of the exception only
LookupExactClass(handlers, exc) == Get(handlers, exc.cls)

\* ExceptionMiddleware: the handler of the first class of the MRO that has one
RECURSIVE LookupMro(_, _)
LookupMro(handlers, mro) ==
    IF mro = <<>> THEN None
    ELSE IF HasKey(handlers, Head(mro)) THEN Get(handlers, Head(mro))
    ELSE LookupMro(handlers, Tail(mro))

LookupExceptionHandler(handlers, exc) == LookupMro(handlers, Mro(exc.cls))

----------------------------------------------------------------------------
(* Settings: src/app/core/config.py.  A value of cors_origins is a str or a *)
(* list of str.                                                             *)

\* response.headers[name] = value
SetHeader(response, name, value) ==
    [response EXCEPT !.headers = {h \in @ : h[1] # name} \cup {<<name, value>>}]

HeaderNames(response) == {h[1] : h \in response.headers}

Str(x) == [type |-> "str", v |-> x]
List(x) == [type |-> "list", v |-> x]

Pieces == {"https://a.com", "https://b.com", ",", " ", "*"}

\* str.split(","), of a sequence of pieces
RECURSIVE Split(_)
Split(x) ==
    LET commas == {i \in 1..Len(x) : x[i] = ","}
    IN  IF commas = {} THEN <<x>>
        ELSE LET i == CHOOSE c \in commas : \A d \in commas : c <= d
             IN  <<SubSeq(x, 1, i - 1)>> \o Split(SubSeq(x, i + 1, Len(x)))

\* a strip that leaves the blanks where they are
StripNothing(x) == x

\* str.strip()
RECURSIVE Strip(_)
Strip(x) ==
    IF x = <<>> THEN x
    ELSE IF Head(x) = " " THEN Strip(Tail(x))
    ELSE IF x[Len(x)] = " " THEN Strip(SubSeq(x, 1, Len(x) - 1))
    ELSE x

\* Settings.parse_cors_origins
parse_cors_origins(v) ==
    IF v.type = "str"
    THEN IF v.v = <<"*">> THEN List(<< <<"*">> >>)
         ELSE LET parts == Split(v.v)
                  stripped == [i \in 1..Len(parts) |-> Strip(parts[i])]
              IN  List(SelectSeq(stripped, LAMBDA origin : origin # <<>>))
    ELSE v

\* the default of the field cors_origins
DefaultCorsOrigins == Str(<<"*">>)

\* Settings(): the instance, for the values CORS_ORIGINS and DATABASE_URL
\* have in the environment, if any.  The validator runs on a value that was
\* given; the default of a field is taken as it is.
Settings(CORS_ORIGINS, DATABASE_URL) ==
    [CORS_ORIGINS |-> CORS_ORIGINS,
     cors_origins |-> IF IsNone(CORS_ORIGINS) THEN DefaultCorsOrigins
                      ELSE parse_cors_origins(Val(CORS_ORIGINS)),
     DATABASE_URL |-> DATABASE_URL,
     database_url |-> DATABASE_URL]

\* CORSMiddleware(allow_origins=settings.cors_origins, allow_credentials=True,
\* allow_methods=["*"], allow_headers=["*"])
\* x in allow_origins: an element of a list, a part of a str
In(x, allow_origins) ==
    \E i \in 1..Len(allow_origins.v) :
        allow_origins.v[i] = IF allow_origins.type = "list" THEN <<x>> ELSE x

allow_all_origins(allow_origins) == In("*", allow_origins)

is_allowed_origin(allow_origins, origin) ==
    \/ allow_all_origins(allow_origins)
    \/ In(origin, allow_origins)

\* CORSMiddleware.preflight_response: with credentials allowed, the origin
\* of an allowed request is echoed; a request of another origin is refused
preflight_response(allow_origins, origin) ==
    IF is_allowed_origin(allow_origins, origin)
    THEN SetHeader([status_code |-> 200, body |-> [text |-> "OK"], headers |-> {}],
                   "Access-Control-Allow-Origin", origin)
    ELSE [status_code |-> 400, body |-> [text |-> "Disallowed CORS origin"], headers |-> {}]

\* CORSMiddleware.send, for a response to a request that has an Origin header
simple_response(allow_origins, origin, response) ==
    IF allow_all_origins(allow_origins)
    THEN SetHeader(response, "Access-Control-Allow-Origin", "*")
    ELSE IF is_allowed_origin(allow_origins, origin)
    THEN SetHeader(response, "Access-Control-Allow-Origin", origin)
    ELSE response

----------------------------------------------------------------------------
(* Middleware: src/app/core/middleware.py *)

\* add_middleware appended instead of inserted in front
add_middleware_appending(user_middleware, cls) == Append(user_middleware, cls)

\* app.add_middleware(cls): user_middleware.insert(0, cls)
add_middleware(user_middleware, cls) == <<cls>> \o user_middleware

setup_cors_middleware(user_middleware) == add_middleware(user_middleware, "CORSMiddleware")

setup_middleware(user_middleware) ==
    add_middleware(
        add_middleware(setup_cors_middleware(user_middleware),
                       "SecurityHeadersMiddleware"),
        "RequestLoggingMiddleware")

\* the interceptors in the order in which setup_middleware registers them
MiddlewareRegistrations ==
    <<"CORSMiddleware", "SecurityHeadersMiddleware", "RequestLoggingMiddleware">>

\* build_middleware_stack, outermost first
Stack ==
    <<"ServerErrorMiddleware">> \o setup_middleware(<<>>)
        \o <<"ExceptionMiddleware", "Router">>

SecurityHeaders ==
    { <<"X-Content-Type-Options", "nosniff">>,
      <<"X-Frame-Options", "DENY">>,
      <<"X-XSS-Protection", "1; mode=block">>,
      <<"Referrer-Policy", "strict-origin-when-cross-origin">> }

SecurityHeaderNames == {h[1] : h \in SecurityHeaders}

----------------------------------------------------------------------------
(* Token service: src/app/utils/security.py.  A claim mapping is a record  *)
(* of Optional claims; a token is its payload with a signature, and a      *)
(* signature is valid for exactly the key and the payload it was made of.  *)

secret_key == "your-secret-key-change-in-production"

Return(v) == [ok |-> TRUE, value |-> v]
Raise(e) == [ok |-> FALSE, exc |-> e]

Sign(key, payload) == <<key, payload>>

\* jwt.encode
JwtEncode(claims, key) ==
    [wellformed |-> TRUE, payload |-> claims, sig |-> Sign(key, claims)]

\* jwt.decode: the token is parsed, its signature is verified, then the exp
\* claim is validated (a token is expired when exp < now)
JwtDecode(token, key, t) ==
    IF ~token.wellformed
    THEN Raise(OtherException("JWTError", "Not enough segments", 0, {}))
    ELSE IF token.sig # Sign(key, token.payload)
    THEN Raise(OtherException("JWTError", "Signature verification failed.", 0, {}))
    ELSE IF ~IsNone(token.payload.exp) /\ Val(token.payload.exp) < t
    THEN Raise(OtherException("ExpiredSignatureError", "Signature has expired.", 0, {}))
    ELSE Return(token.payload)

\* the truth value of `expires_delta`: None and timedelta(0) are false
Truthy(expires_delta) == ~IsNone(expires_delta) /\ Val(expires_delta) # 0

\* create_access_token at time t: the token, and the caller's mapping as
\* the call leaves it
create_access_token(data, expires_delta, t) ==
    LET to_encode == data
        expire == IF Truthy(expires_delta)
                  THEN t + Val(expires_delta)
                  ELSE t + access_token_expire_minutes
        updated == [to_encode EXCEPT !.exp = Some(expire)]
    IN  [token |-> JwtEncode(updated, secret_key), data |-> data]

verify_token(token, t) ==
    LET r == JwtDecode(token, secret_key, t)
    IN  IF r.ok THEN r
        ELSE IF IsInstance(r.exc, "JWTError")
             THEN Raise(UnauthorizedException("Invalid token"))
             ELSE r

decode_access_token(token, t) ==
    LET r == verify_token(token, t)
    IN  IF ~r.ok
        THEN IF IsInstance(r.exc, "JWTError")
             THEN Raise(UnauthorizedException("Could not validate credentials"))
             ELSE r
        ELSE IF IsNone(r.value.sub)
             THEN Raise(UnauthorizedException("Invalid token payload"))
             ELSE Return(Val(r.value.sub))

\* src/app/utils/dependencies.py: get_current_user, given what HTTPBearer
\* (auto_error=False) extracted from the request: None, or the credential
get_current_user(credentials) ==
    IF IsNone(credentials)
    THEN Raise(UnauthorizedException("Authorization header required"))
    ELSE Return([user_id |-> 1, username |-> "test_user"])

\* get_current_active_user: the user get_current_user yielded
get_current_active_user(credentials) == get_current_user(credentials)

\* the mappings a caller passes to create_access_token
DataSet ==
    { [sub |-> Some("alice"), exp |-> None],
      [sub |-> Some("alice"), exp |-> Some(0)],
      [sub |-> Some(""), exp |-> None],
      [sub |-> None, exp |-> None] }

\* the values of expires_delta a caller passes, in minutes
DeltaSet == {None, Some(0), Some(1)}

\* the tokens presented for verification: the issued ones, an issued one
\* re-signed with another key, an issued one whose exp was changed, and a
\* string that is no token
Forged(token) == [token EXCEPT !.sig = Sign("another-key", token.payload)]
Tampered(token) == [token EXCEPT !.payload.exp = Some(MaxClock + 1)]
Malformed == [wellformed |-> FALSE, payload |-> [sub |-> None, exp |-> None], sig |-> <<>>]

Presented ==
    {i.token : i \in issued} \cup {Forged(i.token) : i \in issued}
        \cup {Tampered(i.token) : i \in issued} \cup {Malformed}

----------------------------------------------------------------------------
(* Requests *)

Requests == 1..MaxRequests
UUIDs == 1..MaxRequests

\* uuid.uuid4(): an identifier that was not generated before.  Identifiers
\* are opaque, so one fresh identifier stands for any other.
uuid4(used) == CHOOSE id \in UUIDs \ used : TRUE

Idle ==
    [stage |-> "idle", depth |-> 0, preflight |-> FALSE, origin |-> None,
     exc |-> None, response |-> None, sent |-> <<>>, server_exc |-> None,
     request_id |-> None, start_time |-> 0, raised |-> None,
     trace |-> <<>>, log |-> <<>>]

At(r, layer, stage) ==
    /\ requests[r].stage = stage
    /\ requests[r].depth \in 1..Len(Stack)
    /\ Stack[requests[r].depth] = layer

Enter(q, layer) ==
    [q EXCEPT !.depth = @ + 1, !.trace = Append(@, <<"enter", layer>>)]

Exit(q, layer) ==
    [q EXCEPT !.stage = "out", !.depth = @ - 1, !.trace = Append(@, <<"exit", layer>>)]

\* what a route handler, with its dependencies, may raise: classified errors
\* (that of the token service for a credential that is no token among
\* them), framework failures, and unclassified exceptions
Raisable ==
    { AppException("boom", HTTP_500_INTERNAL_SERVER_ERROR, None),
      AppException("teapot", 418, Some({<<"kind", "teapot">>})),
      AppException("fine", 200, Some({})),
      ValidationException("bad input", Some({<<"field", "email">>})),
      decode_access_token(Malformed, 0).exc,
      OtherException("HTTPException", "Method Not Allowed", 405, {}),
      OtherException("RequestValidationError", "", 0, {<<"body.name", "field required">>}),
      OtherException("RuntimeError", "Database not configured", 0, {}),
      OtherException("KeyError", "secret_key", 0, {}) }

\* the router's own failure for a path no route matches
NotFound == OtherException("StarletteHTTPException", "Not Found", HTTP_404_NOT_FOUND, {})

\* the body of GET /health
HealthBody == [status |-> "healthy", version |-> "0.1.0"]

\* a request arrives: one without an Origin header, or the preflight request
\* of a browser for a page of some origin
Receive(r) ==
    /\ requests[r].stage = "idle"
    /\ \E origin \in {None, Some("https://a.com"), Some("https://c.com")} :
         requests' = [requests EXCEPT ![r] =
             [Idle EXCEPT !.stage = "in", !.depth = 1,
                          !.preflight = ~IsNone(origin),
                          !.origin = origin]]
    /\ UNCHANGED <<settings, db, exception_handlers, used_ids, now, issued, last>>

\* ServerErrorMiddleware.__call__, up to `await self.app(...)`
ServerErrorEnter(r) ==
    /\ At(r, "ServerErrorMiddleware", "in")
    /\ requests' = [requests EXCEPT ![r] = Enter(@, "ServerErrorMiddleware")]
    /\ UNCHANGED <<settings, db, exception_handlers, used_ids, now, issued, last>>

\* RequestLoggingMiddleware.dispatch, up to `await call_next(request)`.
\* Requests are interchangeable: they are numbered in the order in which
\* they enter this middleware.
RequestLoggingEnter(r) ==
    /\ At(r, "RequestLoggingMiddleware", "in")
    /\ \A q \in Requests : q < r => ~IsNone(requests[q].request_id)
    /\ LET id == uuid4(used_ids) IN
         /\ used_ids' = used_ids \cup {id}
         /\ requests' = [requests EXCEPT ![r] =
              [Enter(@, "RequestLoggingMiddleware") EXCEPT
                  !.request_id = Some(id),
                  !.start_time = now,
                  !.log = Append(@, [level |-> "info", msg |-> "Request started",
                                     request_id |-> Some(id)])]]
    /\ UNCHANGED <<settings, db, exception_handlers, now, issued, last>>

\* SecurityHeadersMiddleware.dispatch, up to `await call_next(request)`
SecurityHeadersEnter(r) ==
    /\ At(r, "SecurityHeadersMiddleware", "in")
    /\ requests' = [requests EXCEPT ![r] = Enter(@, "SecurityHeadersMiddleware")]
    /\ UNCHANGED <<settings, db, exception_handlers, used_ids, now, issued, last>>

\* CORSMiddleware.__call__: a preflight request is answered here, any other
\* request goes on to the wrapped application
CORSEnter(r) ==
    /\ At(r, "CORSMiddleware", "in")
    /\ requests' = [requests EXCEPT ![r] =
         IF @.preflight
         THEN [Exit(Enter(@, "CORSMiddleware"), "CORSMiddleware") EXCEPT
                 !.depth = requests[r].depth - 1,
                 !.response = Some(preflight_response(settings.cors_origins,
                                                      Val(requests[r].origin)))]
         ELSE Enter(@, "CORSMiddleware")]
    /\ UNCHANGED <<settings, db, exception_handlers, used_ids, now, issued, last>>

\* ExceptionMiddleware.__call__, up to `await self.app(...)`
ExceptionMiddlewareEnter(r) ==
    /\ At(r, "ExceptionMiddleware", "in")
    /\ requests' = [requests EXCEPT ![r] = Enter(@, "ExceptionMiddleware")]
    /\ UNCHANGED <<settings, db, exception_handlers, used_ids, now, issued, last>>

\* the router: a matched route whose handler returns; a matched route whose
\* handler or dependency raises; or no matching route
Router(r) ==
    /\ At(r, "Router", "in")
    /\ \/ requests' = [requests EXCEPT ![r] =
            [Exit(Enter(@, "Router"), "Router") EXCEPT
                !.depth = requests[r].depth - 1,
                !.response = Some(JSONResponse(200, HealthBody))]]
       \/ \E e \in Raisable \cup {NotFound} :
            requests' = [requests EXCEPT ![r] =
              [Exit(Enter(@, "Router"), "Router") EXCEPT
                !.depth = requests[r].depth - 1,
                !.exc = Some(e), !.raised = Some(e)]]
    /\ UNCHANGED <<settings, db, exception_handlers, used_ids, now, issued, last>>

\* ExceptionMiddleware, after the wrapped application returned or raised:
\* an exception with a registered handler becomes that handler's response,
\* any other exception is raised on
ExceptionMiddlewareExit(r) ==
    /\ At(r, "ExceptionMiddleware", "out")
    /\ LET q == requests[r]
           h == IF IsNone(q.exc) THEN None
                ELSE LookupExceptionHandler(InnerHandlers(exception_handlers), Val(q.exc))
       IN  requests' = [requests EXCEPT ![r] =
             IF IsNone(h) THEN Exit(q, "ExceptionMiddleware")
             ELSE [Exit(q, "ExceptionMiddleware") EXCEPT
                     !.exc = None,
                     !.response = Some(CallHandler(Val(h), Val(q.exc))),
                     !.log = Append(@, HandlerLog(Val(h), Val(q.exc))),
                     !.trace = Append(Append(q.trace, <<"handler", Val(h)>>),
                                      <<"exit", "ExceptionMiddleware">>)]]
    /\ UNCHANGED <<settings, db, exception_handlers, used_ids, now, issued, last>>

\* CORSMiddleware.send: a response to a request with an Origin header gets
\* the CORS headers; an exception passes through
CORSExit(r) ==
    /\ At(r, "CORSMiddleware", "out")
    /\ LET q == requests[r]
       IN  requests' = [requests EXCEPT ![r] =
             IF IsNone(q.response) \/ IsNone(q.origin) THEN Exit(q, "CORSMiddleware")
             ELSE [Exit(q, "CORSMiddleware") EXCEPT
                     !.response = Some(simple_response(settings.cors_origins,
                                         Val(q.origin), Val(q.response)))]]
    /\ UNCHANGED <<settings, db, exception_handlers, used_ids, now, issued, last>>

\* the four assignments of SecurityHeadersMiddleware.dispatch
StampSecurityHeaders(response) ==
    SetHeader(SetHeader(SetHeader(SetHeader(response,
        "X-Content-Type-Options", "nosniff"),
        "X-Frame-Options", "DENY"),
        "X-XSS-Protection", "1; mode=block"),
        "Referrer-Policy", "strict-origin-when-cross-origin")

\* SecurityHeadersMiddleware.dispatch, after `await call_next(request)`:
\* there is no try, an exception raised by call_next leaves dispatch
SecurityHeadersExit(r) ==
    /\ At(r, "SecurityHeadersMiddleware", "out")
    /\ LET q == requests[r]
       IN  requests' = [requests EXCEPT ![r] =
             IF IsNone(q.response) THEN Exit(q, "SecurityHeadersMiddleware")
             ELSE [Exit(q, "SecurityHeadersMiddleware") EXCEPT
                     !.response = Some(StampSecurityHeaders(Val(q.response)))]]
    /\ UNCHANGED <<settings, db, exception_handlers, used_ids, now, issued, last>>

\* the two header assignments of RequestLoggingMiddleware.dispatch
StampRequestHeaders(response, request_id, process_time) ==
    SetHeader(SetHeader(response, "X-Request-ID", ToString(request_id)),
              "X-Process-Time", ToString(process_time))

\* the identifier generated last, as an attribute of the middleware instance
\* would hold it
SharedRequestId(r) == Some(CHOOSE id \in used_ids : \A other \in used_ids : other <= id)

\* request_id, the local variable of dispatch, after the await
LocalRequestId(r) == requests[r].request_id

\* RequestLoggingMiddleware.dispatch, after `await call_next(request)`
RequestLoggingExit(r) ==
    /\ At(r, "RequestLoggingMiddleware", "out")
    /\ LET q == requests[r]
           process_time == now - q.start_time
       IN  requests' = [requests EXCEPT ![r] =
             IF ~IsNone(q.exc)
             THEN [Exit(q, "RequestLoggingMiddleware") EXCEPT
                     !.log = Append(@, [level |-> "error", msg |-> "Request failed",
                                        request_id |-> LocalRequestId(r)])]
             ELSE [Exit(q, "RequestLoggingMiddleware") EXCEPT
                     !.log = Append(@, [level |-> "info", msg |-> "Request completed",
                                        request_id |-> LocalRequestId(r)]),
                     !.response = Some(StampRequestHeaders(Val(q.response),
                                         Val(LocalRequestId(r)), process_time))]]
    /\ UNCHANGED <<settings, db, exception_handlers, used_ids, now, issued, last>>

\* ServerErrorMiddleware's own response when no handler is registered
PlainServerError ==
    [status_code |-> HTTP_500_INTERNAL_SERVER_ERROR,
     body |-> [text |-> "Internal Server Error"], headers |-> {}]

\* ServerErrorMiddleware.__call__, after `await self.app(...)`: a response is
\* sent as it is; an exception is turned into the response of the handler
\* registered for Exception, which is sent, and the exception is raised on
\* to the server
ServerErrorExit(r) ==
    /\ At(r, "ServerErrorMiddleware", "out")
    /\ LET q == requests[r]
           h == ErrorHandler(exception_handlers)
           done == [Exit(q, "ServerErrorMiddleware") EXCEPT !.stage = "done"]
       IN  requests' = [requests EXCEPT ![r] =
             IF IsNone(q.exc)
             THEN [done EXCEPT !.sent = Append(@, Val(q.response)),
                               !.response = None]
             ELSE [done EXCEPT
                     !.sent = Append(@, IF IsNone(h) THEN PlainServerError
                                        ELSE CallHandler(Val(h), Val(q.exc))),
                     !.log = IF IsNone(h) THEN @
                             ELSE Append(@, HandlerLog(Val(h), Val(q.exc))),
                     !.trace = IF IsNone(h) THEN Append(q.trace, <<"exit", "ServerErrorMiddleware">>)
                               ELSE Append(Append(q.trace, <<"handler", Val(h)>>),
                                           <<"exit", "ServerErrorMiddleware">>),
                     !.exc = None,
                     !.server_exc = q.exc]]
    /\ UNCHANGED <<settings, db, exception_handlers, used_ids, now, issued, last>>

NoCall == [op |-> "none"]

\* a request that has not asked for a database session
NoSession ==
    [stage |-> "idle", via |-> None, session |-> None, generator |-> "none",
     finalizer |-> FALSE, exc |-> None, events |-> <<>>]

PipelineInit ==
    /\ requests = [r \in Requests |-> Idle]
    /\ used_ids = {}
    /\ now = 0
    /\ issued = {}
    /\ last = NoCall
    /\ db = [r \in Requests |-> NoSession]

Init ==
    /\ settings = Settings(None, None)
    /\ exception_handlers = setup_exception_handlers(DefaultHandlers)
    /\ PipelineInit

InitAnyOrder ==
    /\ settings = Settings(None, None)
    /\ exception_handlers \in {RegisterAll(DefaultHandlers, Permuted(p)) : p \in Perms}
    /\ PipelineInit

\* the values CORS_ORIGINS may be given: any string of at most MaxLen
\* pieces, or a list
CorsStrings == UNION {[1..k -> Pieces] : k \in 0..MaxLen}

CorsValues == {Str(x) : x \in CorsStrings} \cup {List(<< <<"https://b.com">> >>)}

InitAnyCors ==
    /\ settings \in {Settings(env, None) : env \in {None} \cup {Some(v) : v \in CorsValues}}
    /\ exception_handlers = setup_exception_handlers(DefaultHandlers)
    /\ PipelineInit

\* one step of the processing of request r
Step(r) ==
    \/ Receive(r)
    \/ ServerErrorEnter(r)
    \/ RequestLoggingEnter(r)
    \/ SecurityHeadersEnter(r)
    \/ CORSEnter(r)
    \/ ExceptionMiddlewareEnter(r)
    \/ Router(r)
    \/ ExceptionMiddlewareExit(r)
    \/ CORSExit(r)
    \/ SecurityHeadersExit(r)
    \/ RequestLoggingExit(r)
    \/ ServerErrorExit(r)

Next == \E r \in Requests : Step(r)

CorsNext == Step(1)

Spec == Init /\ [][Next]_vars

SpecAnyOrder == InitAnyOrder /\ [][Next]_vars

CorsSpec == InitAnyCors /\ [][CorsNext]_vars

----------------------------------------------------------------------------
(* Token service operations *)

\* the instants at which the clock is read: the first minutes of each
\* period of the default token lifetime
Instants == {t \in 0..MaxClock : t % access_token_expire_minutes <= 2}

\* time passes; the record of the call that has just returned is dropped
Tick ==
    /\ \E t \in Instants :
         /\ t > now
         /\ now' = t
    /\ last' = NoCall
    /\ UNCHANGED <<settings, db, exception_handlers, requests, used_ids, issued>>

CreateAccessToken ==
    /\ Cardinality(issued) < MaxTokens
    /\ \E data \in DataSet, expires_delta \in DeltaSet :
         LET r == create_access_token(data, expires_delta, now)
         IN  /\ issued' = issued \cup
                    {[token |-> r.token, at |-> now, expires_delta |-> expires_delta]}
             /\ last' = [op |-> "create_access_token", data |-> data,
                         expires_delta |-> expires_delta, at |-> now,
                         token |-> r.token, data_after |-> r.data]
    /\ UNCHANGED <<settings, db, exception_handlers, requests, used_ids, now>>

VerifyToken ==
    /\ \E token \in Presented :
         last' = [op |-> "verify_token", token |-> token, at |-> now,
                  result |-> verify_token(token, now)]
    /\ UNCHANGED <<settings, db, exception_handlers, requests, used_ids, now, issued>>

DecodeAccessToken ==
    /\ \E token \in Presented :
         last' = [op |-> "decode_access_token", token |-> token, at |-> now,
                  result |-> decode_access_token(token, now)]
    /\ UNCHANGED <<settings, db, exception_handlers, requests, used_ids, now, issued>>

\* a protected request: its bearer credential is resolved to a user
GetCurrentUser ==
    /\ \E credentials \in {None} \cup {Some(t) : t \in Presented} :
         last' = [op |-> "get_current_user", credentials |-> credentials, at |-> now,
                  result |-> get_current_user(credentials),
                  active |-> get_current_active_user(credentials)]
    /\ UNCHANGED <<settings, db, exception_handlers, requests, used_ids, now, issued>>

TokenNext ==
    \/ Tick
    \/ CreateAccessToken
    \/ VerifyToken
    \/ DecodeAccessToken
    \/ GetCurrentUser

TokenSpec == Init /\ [][TokenNext]_vars

----------------------------------------------------------------------------
(* Database sessions: src/app/core/database.py, src/app/utils/dependencies.py *)
(* A route declares Depends(get_db) or Depends(get_async_session); the      *)
(* framework runs the generator to its yield before the handler, and after  *)
(* the handler resumes it, or throws the handler's exception into it.       *)
(* db[r].events is what was called on the session of r, in order, with the  *)
(* end of the request marked "finish".                                      *)

\* engine and async_session_maker exist if settings.database_url is truthy
async_session_maker ==
    IF ~IsNone(settings.database_url) /\ Val(settings.database_url) # ""
    THEN Some("async_session_maker") ELSE None

DatabaseUrls == {None, Some(""), Some("sqlite+aiosqlite:///./app.db")}

Dependencies == {"get_db", "get_async_session"}

\* what the handler of a route with a session may raise
DbFailures ==
    { NotFoundException("no such row"),
      OtherException("IntegrityError", "UNIQUE constraint failed", 0, {}) }

\* get_async_session resumed at its yield, normally (exc = None) or by an
\* exception thrown into it: the calls it makes on the session.  The finally
\* clause closes, and so does the exit of "async with".
get_async_session(exc) ==
    IF IsNone(exc) THEN <<"close", "close">>
    ELSE IF IsInstance(Val(exc), "Exception") THEN <<"rollback", "close", "close">>
    ELSE <<"close", "close">>

\* aclose() of a suspended get_async_session: GeneratorExit is raised at the
\* yield, which "except Exception" does not catch
get_async_session_aclose == <<"close", "close">>

\* the dependency is solved: get_async_session runs to its yield
DependsOnSession(r) ==
    /\ db[r].stage = "idle"
    /\ \E via \in Dependencies :
         db' = [db EXCEPT ![r] =
            IF IsNone(async_session_maker)
            THEN [@ EXCEPT !.stage = "unwound", !.via = Some(via),
                           !.exc = Some(OtherException("RuntimeError",
                                            "Database not configured", 0, {}))]
            ELSE [@ EXCEPT !.stage = "handling", !.via = Some(via),
                           !.session = Some(r), !.generator = "suspended"]]
    /\ UNCHANGED <<settings, exception_handlers, requests, used_ids, now, issued, last>>

\* the handler, using the session, returns or raises
Handler(r) ==
    /\ db[r].stage = "handling"
    /\ \E exc \in {None} \cup {Some(e) : e \in DbFailures} :
         db' = [db EXCEPT ![r].stage = "handled", ![r].exc = exc]
    /\ UNCHANGED <<settings, exception_handlers, requests, used_ids, now, issued, last>>

\* the framework leaves the dependency.  get_async_session is resumed, or
\* gets the exception.  get_db is resumed and asks get_async_session for the
\* next session, or gets the exception at its own yield: "async for" does
\* not hand it to get_async_session, which stays suspended at its yield
\* until the generator object, no longer referenced, is finalized.
Teardown(r) ==
    /\ db[r].stage = "handled"
    /\ db' = [db EXCEPT ![r] =
         IF Val(@.via) = "get_db" /\ ~IsNone(@.exc)
         THEN [@ EXCEPT !.stage = "unwound", !.finalizer = TRUE]
         ELSE [@ EXCEPT !.stage = "unwound", !.generator = "ended",
                        !.events = @ \o get_async_session(db[r].exc)]]
    /\ UNCHANGED <<settings, exception_handlers, requests, used_ids, now, issued, last>>

\* the event loop's finalizer of asynchronous generators closes the
\* suspended get_async_session, when it gets to run
Finalizer(r) ==
    /\ db[r].finalizer
    /\ db' = [db EXCEPT ![r].finalizer = FALSE, ![r].generator = "ended",
                        ![r].events = @ \o get_async_session_aclose]
    /\ UNCHANGED <<settings, exception_handlers, requests, used_ids, now, issued, last>>

\* the request finishes, with its response or its exception
Finish(r) ==
    /\ db[r].stage = "unwound"
    /\ db' = [db EXCEPT ![r].stage = "finished", ![r].events = Append(@, "finish")]
    /\ UNCHANGED <<settings, exception_handlers, requests, used_ids, now, issued, last>>

InitAnyDatabase ==
    /\ settings \in {Settings(None, url) : url \in DatabaseUrls}
    /\ exception_handlers = setup_exception_handlers(DefaultHandlers)
    /\ PipelineInit

DbNext ==
    \E r \in Requests :
        \/ DependsOnSession(r)
        \/ Handler(r)
        \/ Teardown(r)
        \/ Finalizer(r)
        \/ Finish(r)

DbSpec == InitAnyDatabase /\ [][DbNext]_vars

----------------------------------------------------------------------------
(* Claims *)

Done(r) == requests[r].stage = "done"

Reached(r, layer) ==
    \E i \in 1..Len(requests[r].trace) : requests[r].trace[i] = <<"enter", layer>>

IsEnvelope(body) == DOMAIN body = {"error", "message", "details"} /\ body.error = TRUE

Is2xx(response) == response.status_code \in 200..299

HandlersInvoked(r) == SelectSeq(requests[r].trace, LAMBDA e : e[1] = "handler")

IsPrefix(s, t) == Len(s) <= Len(t) /\ \A i \in 1..Len(s) : s[i] = t[i]

\* C1: every request that reached the handler gets exactly one response; its
\* body is the envelope exactly when the handler raised; and no 2xx response
\* carries the envelope.
C1_EnvelopeIffFailed ==
    \A r \in Requests :
        Done(r) /\ Reached(r, "Router") =>
            /\ Len(requests[r].sent) = 1
            /\ IsEnvelope(requests[r].sent[1].body) <=> ~IsNone(requests[r].raised)
            /\ Is2xx(requests[r].sent[1]) => ~IsEnvelope(requests[r].sent[1].body)

\* C2: every response sent to the client carries the four security headers,
\* on the success path and on every failure path.
C2_SecurityHeadersOnEveryResponse ==
    \A r \in Requests :
        \A i \in 1..Len(requests[r].sent) :
            SecurityHeaderNames \subseteq HeaderNames(requests[r].sent[i])

\* C3: every response sent to the client carries X-Request-ID and
\* X-Process-Time, whether the call below the Request Logger returned a
\* response or raised.
C3_RequestHeadersOnEveryResponse ==
    \A r \in Requests :
        \A i \in 1..Len(requests[r].sent) :
            {"X-Request-ID", "X-Process-Time"} \subseteq HeaderNames(requests[r].sent[i])

\* C4: when the handler raised an unclassified exception, the one response
\* has status 500 and the body {error: true, message: "Internal server
\* error", details: {}}, in which neither the message nor the class of the
\* exception appears.
C4_UnclassifiedIsOpaque500 ==
    \A r \in Requests :
        Done(r) /\ ~IsNone(requests[r].raised) /\ IsUnclassified(Val(requests[r].raised)) =>
            /\ Len(requests[r].sent) = 1
            /\ requests[r].sent[1].status_code = 500
            /\ requests[r].sent[1].body =
                  [error |-> TRUE, message |-> "Internal server error", details |-> {}]
            /\ requests[r].sent[1].body.message
                  \notin {Val(requests[r].raised).message, Val(requests[r].raised).cls}

C4_Witness ==
    \E r \in Requests :
        /\ Done(r)
        /\ ~IsNone(requests[r].raised)
        /\ Val(requests[r].raised).cls = "KeyError"
        /\ Len(requests[r].sent) = 1

\* the handler that has to translate an exception: the most specific one
ExpectedHandler(exc) ==
    IF IsInstance(exc, "AppException") THEN "app_exception_handler"
    ELSE IF IsInstance(exc, "StarletteHTTPException") THEN "http_exception_handler"
    ELSE IF IsInstance(exc, "RequestValidationError") THEN "validation_exception_handler"
    ELSE "general_exception_handler"

\* C5: whatever the order in which the four handlers were registered, a
\* raised exception is translated by exactly one handler, the most specific
\* one: app_exception_handler for an AppException or a subclass,
\* http_exception_handler for an HTTPException, validation_exception_handler
\* for a RequestValidationError, general_exception_handler for the rest.
C5_MostSpecificHandler ==
    \A r \in Requests :
        Done(r) /\ ~IsNone(requests[r].raised) =>
            HandlersInvoked(r) = << <<"handler", ExpectedHandler(Val(requests[r].raised))>> >>

C5_Witness ==
    \E r \in Requests :
        /\ Done(r)
        /\ ~IsNone(requests[r].raised)
        /\ Val(requests[r].raised).cls = "ValidationException"
        /\ exception_handlers # setup_exception_handlers(DefaultHandlers)
        /\ HandlersInvoked(r) = << <<"handler", "app_exception_handler">> >>

\* C6: a classified error raised below the translator is translated by
\* app_exception_handler into the status, message and details it was
\* constructed with; details is {} when none was given.
C6_ClassifiedErrorTranslated ==
    \A r \in Requests :
        Done(r) /\ ~IsNone(requests[r].raised) /\ IsClassified(Val(requests[r].raised)) =>
            LET e == Val(requests[r].raised) IN
            /\ HandlersInvoked(r) = << <<"handler", "app_exception_handler">> >>
            /\ Len(requests[r].sent) = 1
            /\ requests[r].sent[1].status_code = e.status_code
            /\ requests[r].sent[1].body =
                  [error |-> TRUE, message |-> e.message, details |-> e.details]
            /\ e.message = "boom" => requests[r].sent[1].body.details = {}
            /\ e.message = "teapot" =>
                  /\ requests[r].sent[1].status_code = 418
                  /\ requests[r].sent[1].body.details = {<<"kind", "teapot">>}
            /\ e.message = "Invalid token" =>
                  /\ requests[r].sent[1].status_code = 401
                  /\ requests[r].sent[1].body.details = {}

C6_Witness ==
    \E r \in Requests :
        /\ Done(r)
        /\ requests[r].raised = Some(UnauthorizedException("Invalid token"))
        /\ Len(requests[r].sent) = 1
        /\ requests[r].sent[1].status_code = 401

\* the interceptors and the handler, and the order of a full traversal and
\* of a preflight request, which CORS answers itself
Chain == {"RequestLoggingMiddleware", "SecurityHeadersMiddleware", "CORSMiddleware", "Router"}

ChainEvents(r) ==
    SelectSeq(requests[r].trace, LAMBDA e : e[1] \in {"enter", "exit"} /\ e[2] \in Chain)

FullTraversal ==
    << <<"enter", "RequestLoggingMiddleware">>, <<"enter", "SecurityHeadersMiddleware">>,
       <<"enter", "CORSMiddleware">>, <<"enter", "Router">>, <<"exit", "Router">>,
       <<"exit", "CORSMiddleware">>, <<"exit", "SecurityHeadersMiddleware">>,
       <<"exit", "RequestLoggingMiddleware">> >>

PreflightTraversal ==
    << <<"enter", "RequestLoggingMiddleware">>, <<"enter", "SecurityHeadersMiddleware">>,
       <<"enter", "CORSMiddleware">>,
       <<"exit", "CORSMiddleware">>, <<"exit", "SecurityHeadersMiddleware">>,
       <<"exit", "RequestLoggingMiddleware">> >>

\* C7: every request enters Request Logger, Security Headers, CORS and the
\* handler in this order and leaves them in the reverse order, whether the
\* handler returned or raised (a preflight request turns back at CORS).
C7_InterceptorOrder ==
    \A r \in Requests :
        LET whole == IF requests[r].preflight THEN PreflightTraversal ELSE FullTraversal
        IN  /\ IsPrefix(ChainEvents(r), whole)
            /\ Done(r) => ChainEvents(r) = whole

C7_Witness ==
    \E r \in Requests :
        /\ Done(r)
        /\ ~requests[r].preflight
        /\ ~IsNone(requests[r].raised)
        /\ IsUnclassified(Val(requests[r].raised))
        /\ ChainEvents(r) = FullTraversal

\* the time-to-live create_access_token is asked for
RequestedTtl(expires_delta) ==
    IF IsNone(expires_delta) THEN access_token_expire_minutes ELSE Val(expires_delta)

\* C8: create_access_token sets exp to current time + ttl, over any exp of
\* data, ttl being expires_delta whenever one is passed (timedelta(0)
\* included) and the configured lifetime otherwise; the other claims are
\* those of data, and data is not mutated.
C8_ExpIsNowPlusTtl ==
    last.op = "create_access_token" =>
        /\ last.token.payload.exp = Some(last.at + RequestedTtl(last.expires_delta))
        /\ last.token.payload.sub = last.data.sub
        /\ last.data_after = last.data

ValidSignature(token) == token.wellformed /\ token.sig = Sign(secret_key, token.payload)

Expired(token, t) == ~IsNone(token.payload.exp) /\ Val(token.payload.exp) < t

IsUnauthorized(result) ==
    /\ ~result.ok
    /\ result.exc.cls = "UnauthorizedException"
    /\ result.exc.status_code = 401

\* C9: verify_token returns the claims of a token only when its signature
\* is valid and it has not expired; a wrongly signed, malformed or expired
\* token fails with UnauthorizedException, as does a token issued with
\* ttl = 0 once time has advanced; no other exception reaches the caller.
C9_VerifyToken ==
    last.op = "verify_token" =>
        /\ last.result.ok =>
              /\ ValidSignature(last.token)
              /\ ~Expired(last.token, last.at)
              /\ last.result.value = last.token.payload
        /\ ~ValidSignature(last.token) \/ Expired(last.token, last.at) =>
              IsUnauthorized(last.result)
        /\ \A i \in issued :
              /\ i.token = last.token
              /\ i.expires_delta = Some(0)
              /\ last.at > i.at
              => IsUnauthorized(last.result)
        /\ ~last.result.ok => IsUnauthorized(last.result)

\* C10: decode_access_token returns a subject only when the verified payload
\* has a non-empty sub; a verifiable token whose sub is absent or empty
\* fails with UnauthorizedException.
C10_SubjectNeverEmpty ==
    last.op = "decode_access_token" =>
        /\ last.result.ok =>
              /\ verify_token(last.token, last.at).ok
              /\ last.result.value # ""
              /\ Some(last.result.value) = last.token.payload.sub
        /\ verify_token(last.token, last.at).ok
              /\ last.token.payload.sub \in {None, Some("")}
              => IsUnauthorized(last.result)

\* C11: get_current_user and get_current_active_user yield a user only for
\* a bearer credential that verify_token accepts, and fail with
\* UnauthorizedException for a request without a credential or with a
\* credential that does not verify.
C11_UserOnlyForVerifiedToken ==
    last.op = "get_current_user" =>
        LET verified == ~IsNone(last.credentials)
                           /\ verify_token(Val(last.credentials), last.at).ok
        IN  /\ last.result.ok => verified
            /\ last.active.ok => verified
            /\ ~verified => IsUnauthorized(last.result) /\ IsUnauthorized(last.active)

\* the values of the X-Request-ID headers of the responses sent for r
SentRequestIds(r) ==
    {h[2] : h \in {g \in UNION {requests[r].sent[i].headers : i \in 1..Len(requests[r].sent)} :
                      g[1] = "X-Request-ID"}}

\* C12: in every interleaving of the requests, no two requests have the
\* same correlation identifier, and the X-Request-ID of a request's
\* response and the request_id of its log records are the identifier
\* generated for that request.
C12_OwnCorrelationId ==
    /\ \A r1, r2 \in Requests :
          r1 # r2 /\ ~IsNone(requests[r1].request_id) /\ ~IsNone(requests[r2].request_id)
              => requests[r1].request_id # requests[r2].request_id
    /\ \A r \in Requests :
          /\ \A i \in 1..Len(requests[r].log) :
                ~IsNone(requests[r].log[i].request_id)
                    => requests[r].log[i].request_id = requests[r].request_id
          /\ \A id \in SentRequestIds(r) :
                /\ ~IsNone(requests[r].request_id)
                /\ id = ToString(Val(requests[r].request_id))
          /\ Done(r) /\ IsNone(requests[r].server_exc) => SentRequestIds(r) # {}

\* a request that entered the Request Logger after another one has its
\* stamped response sent while the other one is still being handled
C12_Witness ==
    \E r1, r2 \in Requests :
        /\ r1 < r2
        /\ requests[r1].stage = "in"
        /\ ~IsNone(requests[r1].request_id)
        /\ Done(r2)
        /\ SentRequestIds(r2) = {ToString(Val(requests[r2].request_id))}

\* the position of the handler's entry among the chain events of r (0: none)
RouterEntry(r) ==
    LET at == {i \in 1..Len(ChainEvents(r)) : ChainEvents(r)[i] = <<"enter", "Router">>}
    IN  IF at = {} THEN 0 ELSE CHOOSE i \in at : TRUE

\* layer is the last interceptor entered before the handler and the first
\* one left after it
ClosestToHandler(r, layer) ==
    LET k == RouterEntry(r)
    IN  /\ k > 1
        /\ ChainEvents(r)[k - 1] = <<"enter", layer>>
        /\ Len(ChainEvents(r)) >= k + 2 => ChainEvents(r)[k + 2] = <<"exit", layer>>

\* layer is the first interceptor entered and the last one left
FarthestFromHandler(r, layer) ==
    /\ ChainEvents(r)[1] = <<"enter", layer>>
    /\ Done(r) => ChainEvents(r)[Len(ChainEvents(r))] = <<"exit", layer>>

\* C16 as stated: the interceptor registered last is the last one entered
\* before the handler and the first one left after it.
C16_LastRegisteredClosest ==
    \A r \in Requests :
        Reached(r, "Router") =>
            ClosestToHandler(r, MiddlewareRegistrations[Len(MiddlewareRegistrations)])

\* C16 as amended: the interceptor registered first (CORS) is the last one
\* entered before the handler and the first one left after it; the one
\* registered last (Request Logger) is the first entered and the last left.
C16_FirstRegisteredClosest ==
    \A r \in Requests :
        Reached(r, "Router") =>
            /\ ClosestToHandler(r, MiddlewareRegistrations[1])
            /\ FarthestFromHandler(r, MiddlewareRegistrations[Len(MiddlewareRegistrations)])

C16_Witness ==
    \E r \in Requests :
        /\ Done(r)
        /\ Reached(r, "Router")
        /\ IsNone(requests[r].raised)
        /\ ClosestToHandler(r, "CORSMiddleware")

\* the messages of the records the Request Logger wrote for r, in order
LoggerMessages(r) ==
    LET own == SelectSeq(requests[r].log, LAMBDA rec : ~IsNone(rec.request_id))
    IN  [i \in 1..Len(own) |-> own[i].msg]

HandlerCalls(r) ==
    Cardinality({i \in 1..Len(requests[r].trace) : requests[r].trace[i] = <<"enter", "Router">>})

\* C14: for every request whose handler raised, classified or not, the
\* Request Logger logged "Request started" and then "Request failed" once
\* and never "Request completed", the exception it raised on is the one the
\* handler raised, and the handler ran once.
C14_FailureSeenByLogger ==
    \A r \in Requests :
        Done(r) /\ ~IsNone(requests[r].raised) =>
            /\ LoggerMessages(r) = <<"Request started", "Request failed">>
            /\ requests[r].server_exc = requests[r].raised
            /\ HandlerCalls(r) = 1

\* the entries of a comma-separated string: for each stretch between two
\* commas (or an end of the string), what is left of it without the blanks
\* at its two ends, if anything is left
Entries(x) ==
    {SubSeq(x, a, b) : <<a, b>> \in
        {ab \in (1..Len(x)) \X (1..Len(x)) :
            /\ ab[1] <= ab[2]
            /\ \A k \in ab[1]..ab[2] : x[k] # ","
            /\ x[ab[1]] # " " /\ x[ab[2]] # " "
            /\ \E i \in 1..ab[1], j \in ab[2]..Len(x) :
                 /\ i = 1 \/ x[i - 1] = ","
                 /\ j = Len(x) \/ x[j + 1] = ","
                 /\ \A k \in (i..(ab[1] - 1)) \cup ((ab[2] + 1)..j) : x[k] = " "}}

ListedOrigins == {settings.cors_origins.v[i] : i \in 1..Len(settings.cors_origins.v)}

Given(x) == settings.CORS_ORIGINS = Some(Str(x))

\* the preflight request r was answered
PreflightAnswered(r) ==
    requests[r].preflight /\ Done(r) /\ Reached(r, "CORSMiddleware") /\ Len(requests[r].sent) = 1

PreflightAllowed(r) ==
    LET q == requests[r].sent[1]
    IN  /\ q.status_code = 200
        /\ <<"Access-Control-Allow-Origin", Val(requests[r].origin)>> \in q.headers

PreflightRejected(r) ==
    LET q == requests[r].sent[1]
    IN  /\ q.status_code = 400
        /\ "Access-Control-Allow-Origin" \notin HeaderNames(q)

\* C13: the CORS origin setting given as the literal "*" is parsed to the
\* wildcard, and given as any other string it is parsed to a list of
\* exactly its non-empty entries between commas, trimmed of blanks; with
\* the wildcard a preflight request of any origin is allowed, and with
\* "https://a.com,https://b.com" a preflight request of https://c.com is
\* rejected and one of https://a.com is allowed.
C13_CorsOriginsParsed ==
    /\ Given(<<"*">>) => settings.cors_origins = List(<< <<"*">> >>)
    /\ \A x \in CorsStrings \ {<<"*">>} :
         Given(x) => /\ settings.cors_origins.type = "list"
                     /\ ListedOrigins = Entries(x)
    /\ \A r \in Requests : PreflightAnswered(r) =>
         /\ Given(<<"*">>) \/ IsNone(settings.CORS_ORIGINS) => PreflightAllowed(r)
         /\ Given(<<"https://a.com", ",", "https://b.com">>) =>
              IF requests[r].origin = Some("https://c.com")
              THEN PreflightRejected(r) ELSE PreflightAllowed(r)
         /\ \A x \in CorsStrings : Given(x) =>
              (PreflightAllowed(r) <=>
                  \/ <<Val(requests[r].origin)>> \in Entries(x)
                  \/ <<"*">> \in Entries(x))

C13_Witness ==
    \E r \in Requests :
        /\ Given(<<"https://a.com", ",", "https://b.com">>)
        /\ PreflightAnswered(r)
        /\ requests[r].origin = Some("https://c.com")
        /\ PreflightRejected(r)

\* the positions of event e in the events of r
Positions(r, e) == {i \in 1..Len(db[r].events) : db[r].events[i] = e}

Before(r, e, f) == \A i \in Positions(r, e), j \in Positions(r, f) : i < j

\* C15: a session handed to a request is released before the request
\* finishes: after a handler that returned it is committed and then closed,
\* after a handler that raised it is rolled back and then closed, it is
\* never closed before its commit or rollback and never left open; without
\* a configured database no session is created and the request fails.
C15_SessionReleased ==
    \A r \in Requests :
        /\ IsNone(async_session_maker) =>
              /\ IsNone(db[r].session)
              /\ db[r].events \in {<<>>, <<"finish">>}
              /\ db[r].stage \in {"unwound", "finished"} => ~IsNone(db[r].exc)
        /\ ~IsNone(db[r].session) =>
              /\ Before(r, "commit", "close") /\ Before(r, "rollback", "close")
              /\ db[r].stage = "finished" =>
                    /\ Positions(r, "close") # {}
                    /\ Before(r, "close", "finish")
                    /\ IF IsNone(db[r].exc)
                       THEN Positions(r, "commit") # {} /\ Positions(r, "rollback") = {}
                       ELSE Positions(r, "rollback") # {} /\ Positions(r, "commit") = {}

====
